---- MODULE Spec2Model ----
(***************************************************************************)
(* Model of gpu_color_monitor.py (nvcolorful): the colour interpolation    *)
(* function and the poll / compare / update loop of main().                *)
(*                                                                         *)
(* A colour string is modelled as the sequence of its characters, so that  *)
(* hex formatting is really performed.  GPU usage values are the integral  *)
(* floats delivered by float(utilization.gpu); usage / 100.0 is kept as an *)
(* exact count of hundredths.  For integral usage the exact value of every *)
(* channel is either an integer (usage 0 or 100, computed exactly in       *)
(* binary floating point) or at least 1/100 away from any integer, so the  *)
(* double rounding of the source never changes the truncated result.       *)
(***************************************************************************)
EXTENDS Integers, Sequences, FiniteSets, TLC

VARIABLES
    pc,             \* position of main(): the call or sleep it is blocked in
    handle,         \* TRUE once nvmlDeviceGetHandleByIndex returned a handle
    last_color,     \* main's last_color (None before the first applied colour)
    usage,          \* usage returned by the latest successful get_gpu_usage
    color,          \* colour computed from that usage
    write,          \* set_liquidctl_color call of that iteration:
                    \*   "none" (not called), "running", "ok", "fail", "aborted"
    prev_color,     \* colour of the successful sample before the latest one
    prev_write,     \* value of write when that earlier iteration ended
    nvml_inits,     \* number of pynvml.nvmlInit() calls made
    nvml_live,      \* TRUE iff some nvmlInit() call succeeded
    nvml_shutdowns, \* number of pynvml.nvmlShutdown() calls made
    init_failed,    \* TRUE once nvmlInit or the handle lookup raised
    sampled,        \* TRUE once get_gpu_usage was called (pc reached "sample")
    commanded,      \* TRUE once set_liquidctl_color was called
    iter_error,     \* exception caught by the current iteration, or "none"
    interrupted_at, \* pc at which SIGINT (KeyboardInterrupt) arrived, or "none"
    pending,        \* exception propagating out of main()'s loop, or "none"
    exit_status     \* "running", "exit0", "exit1", "uncaught_KeyboardInterrupt"

vars == <<pc, handle, last_color, usage, color, write, prev_color, prev_write,
          nvml_inits, nvml_live, nvml_shutdowns, init_failed, sampled,
          commanded, iter_error, interrupted_at, pending, exit_status>>

----------------------------------------------------------------------------
(* Bounds of the model *)

\* usages the sampler may deliver are 0, SampleStep, ..., MaxSampleIdx * SampleStep
SampleStep == 50
MaxSampleIdx == 3
\* the pure-function specification feeds -MaxOver .. 100 + MaxOver
MaxOver == 10

----------------------------------------------------------------------------
(* Program constants *)

None == <<>>
DARK_BLUE == <<0, 0, 139>>
DARK_RED == <<139, 0, 0>>
\* the divisor of `usage / 100.0`; factor is carried as usage hundredths
FactorDen == 100

HexDigits == <<"0", "1", "2", "3", "4", "5", "6", "7",
               "8", "9", "a", "b", "c", "d", "e", "f">>

----------------------------------------------------------------------------
(* Pure functions *)

Min(a, b) == IF a < b THEN a ELSE b
Max(a, b) == IF a > b THEN a ELSE b

\* digits of n >= 0 in lowercase hexadecimal, no padding
RECURSIVE ToHex(_)
ToHex(n) == IF n < 16 THEN <<HexDigits[n + 1]>>
            ELSE ToHex(n \div 16) \o <<HexDigits[(n % 16) + 1]>>

\* the format specification `:02x`: sign, hex digits, zero-padded to width 2
Fmt02x(n) ==
    LET body == IF n < 0 THEN <<"-">> \o ToHex(0 - n) ELSE ToHex(n)
    IN  IF Len(body) < 2 THEN <<"0">> \o body ELSE body

hex_color(rgb) == <<"#">> \o Fmt02x(rgb[1]) \o Fmt02x(rgb[2]) \o Fmt02x(rgb[3])

\* max(0, min(100, usage))
Clamp(u) == Max(0, Min(100, u))

\* int(x) for x = h / FactorDen: truncation toward zero
IntTrunc(h) == IF h >= 0 THEN h \div FactorDen ELSE 0 - ((0 - h) \div FactorDen)

\* lo + (hi - lo) * factor, in hundredths (factor = f / FactorDen)
Lerp_swapped(lo, hi, f) == hi * FactorDen + (lo - hi) * f
Lerp(lo, hi, f) == lo * FactorDen + (hi - lo) * f

interpolate_color_round(u) ==
    LET f == Clamp(u)
        r == IntTrunc(Lerp(DARK_BLUE[1], DARK_RED[1], f) + 50)
        g == IntTrunc(Lerp(DARK_BLUE[2], DARK_RED[2], f) + 50)
        b == IntTrunc(Lerp(DARK_BLUE[3], DARK_RED[3], f) + 50)
    IN  hex_color(<<r, g, b>>)
interpolate_color(u) ==
    LET f == Clamp(u)
        r == IntTrunc(Lerp(DARK_BLUE[1], DARK_RED[1], f))
        g == IntTrunc(Lerp(DARK_BLUE[2], DARK_RED[2], f))
        b == IntTrunc(Lerp(DARK_BLUE[3], DARK_RED[3], f))
    IN  hex_color(<<r, g, b>>)

----------------------------------------------------------------------------
(* main() *)

SampleValues == {i * SampleStep : i \in 0..MaxSampleIdx}

Init ==
    /\ pc = "nvmlInit"
    /\ handle = FALSE
    /\ last_color = None
    /\ usage = 0
    /\ color = None
    /\ write = "none"
    /\ prev_color = None
    /\ prev_write = "none"
    /\ nvml_inits = 0
    /\ nvml_live = FALSE
    /\ nvml_shutdowns = 0
    /\ init_failed = FALSE
    /\ sampled = FALSE
    /\ commanded = FALSE
    /\ iter_error = "none"
    /\ interrupted_at = "none"
    /\ pending = "none"
    /\ exit_status = "running"

\* pynvml.nvmlInit() returns
NvmlInitOk ==
    /\ pc = "nvmlInit"
    /\ pc' = "getHandle"
    /\ nvml_inits' = nvml_inits + 1
    /\ nvml_live' = TRUE
    /\ UNCHANGED iter_error
    /\ UNCHANGED <<handle, last_color, usage, color, write, prev_color,
                   prev_write, nvml_shutdowns, init_failed, sampled,
                   commanded, interrupted_at, pending, exit_status>>

\* pynvml.nvmlInit() raises: control enters `except Exception`
NvmlInitFail ==
    /\ pc = "nvmlInit"
    /\ pc' = "init_except"
    /\ nvml_inits' = nvml_inits + 1
    /\ init_failed' = TRUE
    /\ UNCHANGED iter_error
    /\ UNCHANGED <<handle, last_color, usage, color, write, prev_color,
                   prev_write, nvml_live, nvml_shutdowns, sampled,
                   commanded, interrupted_at, pending, exit_status>>

\* nvmlDeviceGetHandleByIndex(GPU_INDEX) returns; last_color = None; loop entered
GetHandleOk ==
    /\ pc = "getHandle"
    /\ pc' = "sample"
    /\ handle' = TRUE
    /\ last_color' = None
    /\ sampled' = TRUE
    /\ UNCHANGED iter_error
    /\ UNCHANGED <<usage, color, write, prev_color, prev_write, nvml_inits,
                   nvml_live, nvml_shutdowns, init_failed, commanded,
                   interrupted_at, pending, exit_status>>

\* nvmlDeviceGetHandleByIndex(GPU_INDEX) raises
GetHandleFail ==
    /\ pc = "getHandle"
    /\ pc' = "init_except"
    /\ init_failed' = TRUE
    /\ UNCHANGED iter_error
    /\ UNCHANGED <<handle, last_color, usage, color, write, prev_color,
                   prev_write, nvml_inits, nvml_live, nvml_shutdowns,
                   sampled, commanded, interrupted_at, pending, exit_status>>

\* the handler of the initialization try: logging.error; sys.exit(1)
InitExcept_fallthrough ==
    /\ pc = "init_except"
    /\ pc' = "sample"
    /\ last_color' = None
    /\ sampled' = TRUE
    /\ UNCHANGED iter_error
    /\ UNCHANGED <<handle, usage, color, write, prev_color, prev_write,
                   nvml_inits, nvml_live, nvml_shutdowns, init_failed,
                   commanded, interrupted_at, pending, exit_status>>
InitExcept ==
    /\ pc = "init_except"
    /\ pc' = "exited"
    /\ exit_status' = "exit1"
    /\ UNCHANGED iter_error
    /\ UNCHANGED <<handle, last_color, usage, color, write, prev_color,
                   prev_write, nvml_inits, nvml_live, nvml_shutdowns,
                   init_failed, sampled, commanded, interrupted_at, pending>>

\* lines 146-157 after get_gpu_usage returned u: interpolate, compare with
\* last_color, and either call set_liquidctl_color or go to the sleep
ColorChanged_always(c, last) == TRUE
ColorChanged(c, last) == c # last

SampleOk ==
    /\ pc = "sample"
    /\ \E u \in SampleValues :
        LET c == interpolate_color(u) IN
        /\ usage' = u
        /\ color' = c
        /\ prev_color' = color
        /\ prev_write' = write
        /\ IF ColorChanged(c, last_color)
           THEN /\ pc' = "set_color"
                /\ write' = "running"
                /\ commanded' = TRUE
           ELSE /\ pc' = "sleep"
                /\ write' = "none"
                /\ UNCHANGED commanded
    /\ UNCHANGED iter_error
    /\ UNCHANGED <<handle, last_color, nvml_inits, nvml_live, nvml_shutdowns,
                   init_failed, sampled, interrupted_at, pending, exit_status>>

\* nvmlDeviceGetUtilizationRates raises: get_gpu_usage logs and re-raises,
\* main's `except Exception` logs and enters time.sleep(UPDATE_INTERVAL)
SampleFail_fatal ==
    /\ pc = "sample"
    /\ pc' = "finally"
    /\ pending' = "Exception"
    /\ iter_error' = "sampler"
    /\ UNCHANGED <<handle, last_color, usage, color, write, prev_color,
                   prev_write, nvml_inits, nvml_live, nvml_shutdowns,
                   init_failed, sampled, commanded, interrupted_at,
                   exit_status>>
SampleFail ==
    /\ pc = "sample"
    /\ pc' = "err_sleep"
    /\ iter_error' = "sampler"
    /\ UNCHANGED <<handle, last_color, usage, color, write, prev_color,
                   prev_write, nvml_inits, nvml_live, nvml_shutdowns,
                   init_failed, sampled, commanded, interrupted_at, pending,
                   exit_status>>

\* set_liquidctl_color returned ok (TRUE: exit code 0; FALSE: non-zero exit
\* code, TimeoutExpired or any other Exception, which main cannot tell
\* apart): lines 154-157
NextLastColor_always(ok, c, last) == c
NextLastColor(ok, c, last) == IF ok THEN c ELSE last

SetColorOk ==
    /\ pc = "set_color"
    /\ pc' = "sleep"
    /\ write' = "ok"
    /\ last_color' = NextLastColor(TRUE, color, last_color)
    /\ UNCHANGED iter_error
    /\ UNCHANGED <<handle, usage, color, prev_color, prev_write, nvml_inits,
                   nvml_live, nvml_shutdowns, init_failed, sampled, commanded,
                   interrupted_at, pending, exit_status>>

SetColorFail ==
    /\ pc = "set_color"
    /\ pc' = "sleep"
    /\ write' = "fail"
    /\ last_color' = NextLastColor(FALSE, color, last_color)
    /\ UNCHANGED iter_error
    /\ UNCHANGED <<handle, usage, color, prev_color, prev_write, nvml_inits,
                   nvml_live, nvml_shutdowns, init_failed, sampled, commanded,
                   interrupted_at, pending, exit_status>>

\* time.sleep(UPDATE_INTERVAL) at the end of an iteration returns
SleepDone ==
    /\ pc = "sleep"
    /\ pc' = "sample"
    /\ UNCHANGED iter_error
    /\ UNCHANGED <<handle, last_color, usage, color, write, prev_color,
                   prev_write, nvml_inits, nvml_live, nvml_shutdowns,
                   init_failed, sampled, commanded, interrupted_at, pending,
                   exit_status>>

\* time.sleep(UPDATE_INTERVAL) inside `except Exception` returns
ErrSleepDone ==
    /\ pc = "err_sleep"
    /\ pc' = "sample"
    /\ iter_error' = "none"
    /\ UNCHANGED <<handle, last_color, usage, color, write, prev_color,
                   prev_write, nvml_inits, nvml_live, nvml_shutdowns,
                   init_failed, sampled, commanded, interrupted_at, pending,
                   exit_status>>

\* SIGINT is modelled where main() blocks (the provider calls, the subprocess
\* and the two sleeps); after the first one main() is in its shutdown
\* path, where no further signal is modelled.
\*
\* SIGINT while main() is in the initialization calls: KeyboardInterrupt is
\* not an Exception, nothing in main() catches it there and the interpreter
\* ends the process.  When it arrives during nvmlInit the call may or may
\* not have taken effect.
InterruptInit ==
    /\ pc \in {"nvmlInit", "getHandle"}
    /\ interrupted_at' = pc
    /\ pc' = "exited"
    /\ exit_status' = "uncaught_KeyboardInterrupt"
    /\ IF pc = "nvmlInit"
       THEN /\ nvml_inits' = nvml_inits + 1
            /\ nvml_live' \in BOOLEAN
       ELSE UNCHANGED <<nvml_inits, nvml_live>>
    /\ UNCHANGED iter_error
    /\ UNCHANGED <<handle, last_color, usage, color, write, prev_color,
                   prev_write, nvml_shutdowns, init_failed, sampled,
                   commanded, pending>>

\* SIGINT in the body of the inner try (get_gpu_usage, set_liquidctl_color,
\* the sleep of line 160).  Neither get_gpu_usage nor set_liquidctl_color
\* catches KeyboardInterrupt; `except KeyboardInterrupt` of main does: break
InterruptLoop_swallowed ==
    /\ pc \in {"sample", "set_color", "sleep"}
    /\ interrupted_at' = pc
    /\ IF pc = "set_color"
       THEN /\ pc' = "sleep"
            /\ write' = "fail"
       ELSE /\ pc' = "finally"
            /\ UNCHANGED write
    /\ UNCHANGED iter_error
    /\ UNCHANGED <<handle, last_color, usage, color, prev_color, prev_write,
                   nvml_inits, nvml_live, nvml_shutdowns, init_failed,
                   sampled, commanded, pending, exit_status>>
InterruptLoop ==
    /\ pc \in {"sample", "set_color", "sleep"}
    /\ interrupted_at' = pc
    /\ pc' = "finally"
    /\ write' = IF pc = "set_color" THEN "aborted" ELSE write
    /\ UNCHANGED iter_error
    /\ UNCHANGED <<handle, last_color, usage, color, prev_color, prev_write,
                   nvml_inits, nvml_live, nvml_shutdowns, init_failed,
                   sampled, commanded, pending, exit_status>>

\* SIGINT during the sleep of line 167.  That sleep is inside the
\* `except Exception` handler, which the sibling `except KeyboardInterrupt`
\* does not cover: the exception leaves the loop through `finally`.
InterruptErrSleep ==
    /\ pc = "err_sleep"
    /\ interrupted_at' = pc
    /\ pc' = "finally"
    /\ pending' = "KeyboardInterrupt"
    /\ UNCHANGED iter_error
    /\ UNCHANGED <<handle, last_color, usage, color, write, prev_color,
                   prev_write, nvml_inits, nvml_live, nvml_shutdowns,
                   init_failed, sampled, commanded, exit_status>>

\* the finally block: pynvml.nvmlShutdown() (an Exception it raises is logged
\* and dropped), then main() returns or the pending exception goes on
Finally ==
    /\ pc = "finally"
    /\ pc' = "exited"
    /\ nvml_shutdowns' = nvml_shutdowns + 1
    /\ exit_status' = IF pending = "none" THEN "exit0"
                      ELSE "uncaught_" \o pending
    /\ UNCHANGED iter_error
    /\ UNCHANGED <<handle, last_color, usage, color, write, prev_color,
                   prev_write, nvml_inits, nvml_live, init_failed, sampled,
                   commanded, interrupted_at, pending>>

Next ==
    \/ NvmlInitOk
    \/ NvmlInitFail
    \/ GetHandleOk
    \/ GetHandleFail
    \/ InitExcept
    \/ SampleOk
    \/ SampleFail
    \/ SetColorOk
    \/ SetColorFail
    \/ SleepDone
    \/ ErrSleepDone
    \/ InterruptInit
    \/ InterruptLoop
    \/ InterruptErrSleep
    \/ Finally

Spec == Init /\ [][Next]_vars

\* both sleeps are time.sleep(UPDATE_INTERVAL): they return after the interval
FairSpec == Spec /\ WF_vars(ErrSleepDone) /\ WF_vars(SleepDone)

----------------------------------------------------------------------------
(* The pure function applied to a bounded range of inputs *)

FnInputs == (0 - MaxOver)..(100 + MaxOver)

FnInit ==
    /\ pc = "fn_call"
    /\ usage \in FnInputs
    /\ handle = FALSE
    /\ last_color = None
    /\ color = None
    /\ write = "none"
    /\ prev_color = None
    /\ prev_write = "none"
    /\ nvml_inits = 0
    /\ nvml_live = FALSE
    /\ nvml_shutdowns = 0
    /\ init_failed = FALSE
    /\ sampled = FALSE
    /\ commanded = FALSE
    /\ iter_error = "none"
    /\ interrupted_at = "none"
    /\ pending = "none"
    /\ exit_status = "running"

FnApply ==
    /\ pc = "fn_call"
    /\ pc' = "fn_done"
    /\ color' = interpolate_color(usage)
    /\ UNCHANGED iter_error
    /\ UNCHANGED <<handle, last_color, usage, write, prev_color, prev_write,
                   nvml_inits, nvml_live, nvml_shutdowns, init_failed,
                   sampled, commanded, interrupted_at, pending, exit_status>>

FnNext == FnApply

FnSpec == FnInit /\ [][FnNext]_vars

----------------------------------------------------------------------------
(* Reading a colour string back *)

HexVal(ch) == (CHOOSE i \in 1..16 : HexDigits[i] = ch) - 1
IsHexDigit(ch) == \E i \in 1..16 : HexDigits[i] = ch
\* channel k (1 red, 2 green, 3 blue) of a '#rrggbb' string
ChannelOf(c, k) == 16 * HexVal(c[2 * k]) + HexVal(c[2 * k + 1])

\* a step in which set_liquidctl_color is called
Invokes == pc # "set_color" /\ pc' = "set_color"
\* a step in which get_gpu_usage returned a value
Sampled == pc = "sample" /\ pc' \in {"set_color", "sleep"}
\* a step in which SIGINT arrived
Interrupts == interrupted_at' # interrupted_at

----------------------------------------------------------------------------
(* Properties *)

\* C1: in every iteration the controller driver is called only when the
\* colour computed from the current sample differs from last_color; when
\* it equals last_color the iteration goes to its sleep without a command.
C1_InvokeOnlyOnChange ==
    [][/\ Invokes => color' # last_color
       /\ (Sampled /\ color' = last_color) =>
              (pc' = "sleep" /\ write' = "none" /\ commanded' = commanded)]_vars

C1_Witness ==
    /\ pc = "sleep"
    /\ write = "none"
    /\ color = last_color
    /\ prev_write = "ok"

\* C2: a failed controller write leaves last_color unchanged, and when the
\* next successful sample computes the same colour the driver is called
\* again with that colour.
C2_RetryOnFailure ==
    [][/\ (pc = "set_color" /\ write' = "fail") => last_color' = last_color
       /\ (Sampled /\ write = "fail" /\ color' = color) =>
              (Invokes /\ write' = "running")]_vars

C2_Witness ==
    /\ pc = "set_color"
    /\ write = "running"
    /\ prev_write = "fail"
    /\ prev_color = color

\* C3 as stated: when two consecutive samples map to the same colour, the
\* second of the two iterations never calls the controller driver.
C3_SecondNeverInvokes ==
    (color # None /\ prev_color = color) => write = "none"

\* C3 amended: when two consecutive samples map to the same colour, the
\* second iteration calls the driver only if the first one called it and
\* that write failed.
C3_SecondInvokesOnlyAfterFailure ==
    (color # None /\ prev_color = color /\ write # "none") => prev_write = "fail"

C3_Witness ==
    /\ color # None
    /\ prev_color = color
    /\ prev_write = "ok"
    /\ write = "none"
    /\ pc = "sleep"

\* C4: a sampler exception is caught at the loop boundary: the process keeps
\* running, no controller command is issued, last_color is unchanged, the
\* loop sleeps, and unless SIGINT arrives in that sleep a further sample is
\* started.
C4_LoopResilience ==
    /\ [][(iter_error' = "sampler" /\ iter_error = "none") =>
              /\ pc' = "err_sleep"
              /\ exit_status' = "running"
              /\ pending' = "none"
              /\ UNCHANGED <<last_color, commanded, write>>]_vars
    /\ [][(pc = "err_sleep" /\ ~Interrupts) =>
              (pc' = "sample" /\ UNCHANGED <<last_color, commanded>>)]_vars
    /\ (pc = "err_sleep") ~> (pc = "sample" \/ interrupted_at = "err_sleep")

\* a sampler exception was caught after a colour had been applied
C4_Witness ==
    /\ pc = "err_sleep"
    /\ iter_error = "sampler"
    /\ write = "ok"
    /\ last_color = color
    /\ exit_status = "running"

\* C5: once telemetry initialization failed the process only terminates
\* with status 1: no sample, no controller command, no second nvmlInit.
C5_InitFailureIsFatal ==
    init_failed =>
        /\ pc \in {"init_except", "exited"}
        /\ pc = "exited" => exit_status = "exit1"
        /\ pc # "exited" => exit_status = "running"
        /\ ~sampled
        /\ ~commanded
        /\ ~handle
        /\ nvml_inits = 1
        /\ nvml_shutdowns = 0

C5_Witness ==
    /\ init_failed
    /\ nvml_live
    /\ pc = "exited"
    /\ exit_status = "exit1"

\* C6: a process that ended after SIGINT arrived in the running loop (in a
\* sample, a controller write, the end-of-iteration sleep or the sleep after
\* a caught error) released the provider and exited with status 0.
C6_InterruptExitsZero ==
    (pc = "exited" /\ interrupted_at \in {"sample", "set_color", "sleep", "err_sleep"})
        => (exit_status = "exit0" /\ nvml_shutdowns = 1)

\* C7: nvmlInit is called at most once, and a process that ended after a
\* successful nvmlInit has called nvmlShutdown exactly once.
C7_AcquireOnceReleaseOnce ==
    /\ nvml_inits <= 1
    /\ nvml_shutdowns <= 1
    /\ (pc = "exited" /\ nvml_live) => nvml_shutdowns = 1

\* C8: interpolate_color(u) is '#' and six hex digits whose channels are
\* low + (high - low) * clamp(u) / 100 truncated toward zero between
\* (0,0,139) and (139,0,0); 0 gives #00008b, 100 gives #8b0000, 50 gives
\* #450045, and inputs outside [0,100] give the result of the nearer end.
C8_InterpolateValue ==
    pc = "fn_done" =>
        LET cu == IF usage < 0 THEN 0 ELSE IF usage > 100 THEN 100 ELSE usage
        IN  /\ Len(color) = 7
            /\ color[1] = "#"
            /\ \A i \in 2..7 : IsHexDigit(color[i])
            /\ ChannelOf(color, 1) = (139 * cu) \div 100
            /\ ChannelOf(color, 2) = 0
            /\ ChannelOf(color, 3) = (13900 - 139 * cu) \div 100
            /\ \A k \in 1..3 : ChannelOf(color, k) \in 0..255
            /\ usage = 0 => color = <<"#", "0", "0", "0", "0", "8", "b">>
            /\ usage = 100 => color = <<"#", "8", "b", "0", "0", "0", "0">>
            /\ usage = 50 => color = <<"#", "4", "5", "0", "0", "4", "5">>
            /\ usage < 0 => color = interpolate_color(0)
            /\ usage > 100 => color = interpolate_color(100)

C8_Witness ==
    /\ pc = "fn_done"
    /\ usage = 0 - MaxOver
    /\ color = <<"#", "0", "0", "0", "0", "8", "b">>

\* C9: on [0,100] the red channel of interpolate_color never decreases and
\* the blue channel never increases as usage grows; green is always 0.
C9_Monotone ==
    pc = "fn_done" =>
        /\ ChannelOf(color, 2) = 0
        /\ usage \in 0..100 =>
              \A v \in 0..100 :
                  usage < v =>
                      /\ ChannelOf(color, 1) <= ChannelOf(interpolate_color(v), 1)
                      /\ ChannelOf(color, 3) >= ChannelOf(interpolate_color(v), 3)

C9_Witness ==
    /\ pc = "fn_done"
    /\ usage = 37
    /\ ChannelOf(color, 1) = 51
    /\ ChannelOf(color, 3) = 87

\* C10 as stated: when the loop shuts down, no controller invocation was cut
\* short by the interrupt.
C10_InvocationNeverCutShort ==
    pc \in {"finally", "exited"} => write # "aborted"

\* C10 amended: SIGINT arriving while the controller command is in progress
\* ends the invocation at once: no result is returned, last_color is
\* unchanged and the loop goes straight to its shutdown.
C10_InterruptAbortsInvocation ==
    [][(pc = "set_color" /\ Interrupts) =>
           /\ pc' = "finally"
           /\ write' = "aborted"
           /\ pending' = "none"
           /\ last_color' = last_color]_vars

C10_Witness ==
    /\ pc = "exited"
    /\ write = "aborted"
    /\ interrupted_at = "set_color"
    /\ exit_status = "exit0"
    /\ nvml_shutdowns = 1

====
